---- MODULE Spec2Model ----
(***************************************************************************)
(* Model of package identity (mainnika/go-lib-micro, identity/token.go):   *)
(* decodeClaims, ExtractIdentity, ExtractIdentityFromHeaders and the typed *)
(* claim getters.  Go strings are byte sequences; here a string is a       *)
(* sequence of byte values (ASCII codes).                                  *)
(***************************************************************************)
EXTENDS Integers, Sequences, FiniteSets, TLC

\* ------------------------------------------------------------------ bytes

\* The printable ASCII characters from space (code 32) to "_" (code 95), and
\* "a" (code 97) to "~" (code 126).
Printable ==
    << " ", "!", "\"", "#", "$", "%", "&", "'", "(", ")", "*", "+", ",", "-", ".", "/",
       "0", "1", "2", "3", "4", "5", "6", "7", "8", "9", ":", ";", "<", "=", ">", "?",
       "@", "A", "B", "C", "D", "E", "F", "G", "H", "I", "J", "K", "L", "M", "N", "O",
       "P", "Q", "R", "S", "T", "U", "V", "W", "X", "Y", "Z", "[", "\\", "]", "^", "_" >>

Lower ==
    << "a", "b", "c", "d", "e", "f", "g", "h", "i", "j", "k", "l", "m", "n", "o",
       "p", "q", "r", "s", "t", "u", "v", "w", "x", "y", "z", "{", "|", "}", "~" >>

\* The byte value of a character.
Code == [c \in {Printable[i] : i \in 1..Len(Printable)} \cup {Lower[i] : i \in 1..Len(Lower)} |->
            IF \E i \in 1..Len(Printable) : Printable[i] = c
            THEN 31 + (CHOOSE i \in 1..Len(Printable) : Printable[i] = c)
            ELSE 96 + (CHOOSE i \in 1..Len(Lower) : Lower[i] = c)]

\* A Go string literal, written as a tuple of characters.
Str(chars) == [i \in 1..Len(chars) |-> Code[chars[i]]]

\* The value of F at val, with val computed once: a local variable.
Bind(val, F(_)) == CHOOSE r \in {F(x) : x \in {val}} : TRUE

\* The bytes the decoders treat specially.
LF == Code[" "] - 22
CR == Code[" "] - 19
TAB == Code[" "] - 23
BS == Code[" "] - 24
FF == Code[" "] - 20

\* ----------------------------------------------------------- strings pkg

\* strings.Split(s, sep) for a one-byte separator: the pieces between the
\* separators, always at least one piece (n separators give n+1 pieces).
Split(s, sep) ==
    LET seps    == {i \in 1..Len(s) : s[i] = sep}
        \* the position of the k-th separator; 0 and Len(s)+1 bound the string
        at(k)   == IF k = 0 THEN 0
                   ELSE IF k > Cardinality(seps) THEN Len(s) + 1
                   ELSE CHOOSE i \in seps : Cardinality({j \in seps : j < i}) = k - 1
    IN  [k \in 1..(Cardinality(seps) + 1) |-> SubSeq(s, at(k - 1) + 1, at(k) - 1)]

\* strings.Repeat(s, n) for a one-byte string.
Repeat(b, n) == [i \in 1..n |-> b]

\* The inverse of Split, used to build inputs: parts joined by sep.
RECURSIVE Join(_, _)
Join(parts, sep) ==
    IF Len(parts) = 0 THEN << >>
    ELSE IF Len(parts) = 1 THEN parts[1]
    ELSE parts[1] \o << sep >> \o Join(Tail(parts), sep)

\* ------------------------------------------------------- encoding/base64

\* base64.URLEncoding: the URL-safe alphabet, '=' padding.
encodeURL ==
    Str(<< "A", "B", "C", "D", "E", "F", "G", "H", "I", "J", "K", "L", "M",
           "N", "O", "P", "Q", "R", "S", "T", "U", "V", "W", "X", "Y", "Z",
           "a", "b", "c", "d", "e", "f", "g", "h", "i", "j", "k", "l", "m",
           "n", "o", "p", "q", "r", "s", "t", "u", "v", "w", "x", "y", "z",
           "0", "1", "2", "3", "4", "5", "6", "7", "8", "9", "-", "_" >>)

padChar == Code["="]

\* decodeMap[b]: the 6-bit value of byte b, or -1 when b is not in the alphabet.
decodeMap == [b \in 0..255 |->
                 IF \E k \in 1..Len(encodeURL) : encodeURL[k] = b
                 THEN (CHOOSE k \in 1..Len(encodeURL) : encodeURL[k] = b) - 1
                 ELSE -1]

\* base64.URLEncoding.EncodeToString: each group of 3 bytes gives 4
\* characters of 6 bits; a last group of 1 or 2 bytes is filled with zero
\* bits and padded with '='.
EncodeToString(src) ==
    LET n         == Len(src)
        byte(k)   == IF k <= n THEN src[k] ELSE 0
        val(g)    == byte(3 * g - 2) * 65536 + byte(3 * g - 1) * 256 + byte(3 * g)
        six(g, j) == IF j = 0 THEN val(g) \div 262144
                     ELSE IF j = 1 THEN (val(g) \div 4096) % 64
                     ELSE IF j = 2 THEN (val(g) \div 64) % 64
                     ELSE val(g) % 64
    IN  [k \in 1..(4 * ((n + 2) \div 3)) |->
            LET g == ((k - 1) \div 4) + 1
                j == (k - 1) % 4
            IN  IF 3 * (g - 1) + j > n THEN padChar ELSE encodeURL[six(g, j) + 1]]

\* base64.RawURLEncoding-style output: the encoding with the padding stripped.
StripPadding(s) == SelectSeq(s, LAMBDA b : b # padChar)

\* base64.(*Encoding).DecodeString for URLEncoding (padded, not strict):
\* '\r' and '\n' are skipped wherever they occur; the rest is read in quanta
\* of four; a quantum of alphabet characters gives three bytes; padding is
\* accepted only as "xx==" or "xxx=" and only in the last quantum; an
\* incomplete last quantum, a foreign byte or misplaced padding is a
\* CorruptInputError.  Trailing bits are not checked.
DecodeString(src) ==
    Bind(SelectSeq(src, LAMBDA b : b # CR /\ b # LF), LAMBDA s :
    LET quanta  == Len(s) \div 4
        c(g, j) == s[4 * (g - 1) + j]
        d(g, j) == decodeMap[c(g, j)]
        \* the bytes quantum g gives: 3, or 2 or 1 when it is padded; 0 when
        \* it is corrupt
        size(g) == IF d(g, 1) < 0 \/ d(g, 2) < 0 THEN 0
                   ELSE IF d(g, 3) >= 0 /\ d(g, 4) >= 0 THEN 3
                   ELSE IF g = quanta /\ d(g, 3) >= 0 /\ c(g, 4) = padChar THEN 2
                   ELSE IF g = quanta /\ c(g, 3) = padChar /\ c(g, 4) = padChar THEN 1
                   ELSE 0
        val(g)  == d(g, 1) * 262144 + d(g, 2) * 4096
                   + (IF d(g, 3) >= 0 THEN d(g, 3) ELSE 0) * 64
                   + (IF d(g, 4) >= 0 THEN d(g, 4) ELSE 0)
        out(g, j) == IF j = 1 THEN val(g) \div 65536
                     ELSE IF j = 2 THEN (val(g) \div 256) % 256
                     ELSE val(g) % 256
        n       == IF quanta = 0 THEN 0 ELSE 3 * (quanta - 1) + size(quanta)
    IN  IF Len(s) % 4 # 0 \/ \E g \in 1..quanta : size(g) = 0
        THEN [ok |-> FALSE, bytes |-> << >>]
        ELSE [ok |-> TRUE,
              bytes |-> [k \in 1..n |-> out(((k - 1) \div 3) + 1, ((k - 1) % 3) + 1)]])

\* --------------------------------------------------------- encoding/json

\* A JSON value as Go holds it in an interface{}: string, bool, float64
\* (kept as its literal), nil, []interface{} and map[string]interface{}
\* (kept as its members in document order).  Every value has the same
\* fields, so that any two values can be compared.
JStr(str)  == [t |-> "string", s |-> str,   b |-> FALSE, keys |-> << >>, kids |-> << >>]
JBool(val) == [t |-> "bool",   s |-> << >>, b |-> val,   keys |-> << >>, kids |-> << >>]
JNum(lit)  == [t |-> "number", s |-> lit,   b |-> FALSE, keys |-> << >>, kids |-> << >>]
JNull      == [t |-> "null",   s |-> << >>, b |-> FALSE, keys |-> << >>, kids |-> << >>]
JArr(vals) == [t |-> "array",  s |-> << >>, b |-> FALSE, keys |-> << >>, kids |-> vals]
JObj(names, vals) ==
    [t |-> "object", s |-> << >>, b |-> FALSE, keys |-> names, kids |-> vals]

\* A parser's result: the value read and the index of the byte after it.
Parsed(val, next) == [ok |-> TRUE, v |-> val, i |-> next]
Failed == [ok |-> FALSE, v |-> JNull, i |-> 0]

IsSpace(c) == c = Code[" "] \/ c = TAB \/ c = CR \/ c = LF
IsDigit(c) == c >= Code["0"] /\ c <= Code["9"]

RECURSIVE SkipSpace(_, _)
SkipSpace(data, i) ==
    IF i <= Len(data) /\ IsSpace(data[i]) THEN SkipSpace(data, i + 1) ELSE i

RECURSIVE SkipDigits(_, _)
SkipDigits(data, i) ==
    IF i <= Len(data) /\ IsDigit(data[i]) THEN SkipDigits(data, i + 1) ELSE i

At(data, i, ch) == i <= Len(data) /\ data[i] = Code[ch]

\* The value of a hexadecimal digit, or -1.
HexVal(c) ==
    IF IsDigit(c) THEN c - Code["0"]
    ELSE IF c >= Code["a"] /\ c <= Code["f"] THEN c - Code["a"] + 10
    ELSE IF c >= Code["A"] /\ c <= Code["F"] THEN c - Code["A"] + 10
    ELSE -1

\* getu4: the rune of the six bytes \uXXXX at data[i..i+5], or -1.
GetU4(data, i) ==
    IF i + 5 > Len(data) \/ data[i] # Code["\\"] \/ data[i + 1] # Code["u"]
       \/ \E k \in 2..5 : HexVal(data[i + k]) < 0
    THEN -1
    ELSE HexVal(data[i + 2]) * 4096 + HexVal(data[i + 3]) * 256
         + HexVal(data[i + 4]) * 16 + HexVal(data[i + 5])

\* utf8.EncodeRune.
EncodeRune(r) ==
    IF r < 128 THEN << r >>
    ELSE IF r < 2048 THEN << 192 + (r \div 64), 128 + (r % 64) >>
    ELSE IF r < 65536
         THEN << 224 + (r \div 4096), 128 + ((r \div 64) % 64), 128 + (r % 64) >>
    ELSE << 240 + (r \div 262144), 128 + ((r \div 4096) % 64),
            128 + ((r \div 64) % 64), 128 + (r % 64) >>

IsSurrogate(r) == r >= 55296 /\ r <= 57343

\* A string literal from the byte after its opening quote (scanner and
\* unquote together): control bytes are refused, the escapes are decoded,
\* a surrogate pair is one rune and a lone surrogate is U+FFFD.  Bytes of
\* 128 and above are copied (the input is taken to be valid UTF-8).
RECURSIVE ParseString(_, _, _)
ParseString(data, i, acc) ==
    IF i > Len(data) THEN Failed
    ELSE IF data[i] = Code["\""] THEN Parsed(JStr(acc), i + 1)
    ELSE IF data[i] < Code[" "] THEN Failed
    ELSE IF data[i] # Code["\\"] THEN ParseString(data, i + 1, Append(acc, data[i]))
    ELSE IF i + 1 > Len(data) THEN Failed
    ELSE LET c  == data[i + 1]
             r1 == GetU4(data, i)
             r2 == GetU4(data, i + 6)
         IN  IF c = Code["\""] \/ c = Code["\\"] \/ c = Code["/"]
                 THEN ParseString(data, i + 2, Append(acc, c))
             ELSE IF c = Code["b"] THEN ParseString(data, i + 2, Append(acc, BS))
             ELSE IF c = Code["f"] THEN ParseString(data, i + 2, Append(acc, FF))
             ELSE IF c = Code["n"] THEN ParseString(data, i + 2, Append(acc, LF))
             ELSE IF c = Code["r"] THEN ParseString(data, i + 2, Append(acc, CR))
             ELSE IF c = Code["t"] THEN ParseString(data, i + 2, Append(acc, TAB))
             ELSE IF c # Code["u"] \/ r1 < 0 THEN Failed
             ELSE IF ~IsSurrogate(r1)
                 THEN ParseString(data, i + 6, acc \o EncodeRune(r1))
             ELSE IF r1 < 56320 /\ r2 >= 56320 /\ r2 <= 57343
                 THEN ParseString(data, i + 12,
                          acc \o EncodeRune(65536 + (r1 - 55296) * 1024 + (r2 - 56320)))
             ELSE ParseString(data, i + 6, acc \o EncodeRune(65533))

\* A number literal: -? (0 | [1-9][0-9]*) (. [0-9]+)? ([eE] [+-]? [0-9]+)?
ParseNumber(data, i) ==
    LET i1 == IF At(data, i, "-") THEN i + 1 ELSE i
        i2 == IF At(data, i1, "0") THEN i1 + 1 ELSE SkipDigits(data, i1)
        f1 == SkipDigits(data, i2 + 1)
        i3 == IF At(data, i2, ".") THEN f1 ELSE i2
        e0 == IF At(data, i3 + 1, "+") \/ At(data, i3 + 1, "-") THEN i3 + 2 ELSE i3 + 1
        e1 == SkipDigits(data, e0)
        i4 == IF At(data, i3, "e") \/ At(data, i3, "E") THEN e1 ELSE i3
    IN  IF i2 = i1 THEN Failed
        ELSE IF At(data, i2, ".") /\ f1 = i2 + 1 THEN Failed
        ELSE IF (At(data, i3, "e") \/ At(data, i3, "E")) /\ e1 = e0 THEN Failed
        ELSE Parsed(JNum(SubSeq(data, i, i4 - 1)), i4)

\* The literals true, false and null.
ParseLiteral(data, i, word, val) ==
    IF i + Len(word) - 1 <= Len(data) /\ SubSeq(data, i, i + Len(word) - 1) = word
    THEN Parsed(val, i + Len(word))
    ELSE Failed

RECURSIVE ParseValue(_, _)
RECURSIVE ParseMembers(_, _, _, _)
RECURSIVE ParseElements(_, _, _)

\* The members of an object from the first byte of a key: "key" : value,
\* then ',' and another member, or '}'.
ParseMembers(data, i, names, vals) ==
    IF ~At(data, i, "\"") THEN Failed
    ELSE Bind(ParseString(data, i + 1, << >>), LAMBDA key :
         IF ~key.ok THEN Failed
         ELSE Bind(SkipSpace(data, key.i), LAMBDA colon :
         IF ~At(data, colon, ":") THEN Failed
         ELSE Bind(ParseValue(data, SkipSpace(data, colon + 1)), LAMBDA val :
         IF ~val.ok THEN Failed
         ELSE Bind(SkipSpace(data, val.i), LAMBDA sep :
         IF At(data, sep, "}")
             THEN Parsed(JObj(Append(names, key.v.s), Append(vals, val.v)), sep + 1)
         ELSE IF At(data, sep, ",")
             THEN ParseMembers(data, SkipSpace(data, sep + 1),
                               Append(names, key.v.s), Append(vals, val.v))
         ELSE Failed))))

\* The elements of an array from the first byte of an element.
ParseElements(data, i, vals) ==
    Bind(ParseValue(data, i), LAMBDA val :
    IF ~val.ok THEN Failed
    ELSE Bind(SkipSpace(data, val.i), LAMBDA sep :
    IF At(data, sep, "]") THEN Parsed(JArr(Append(vals, val.v)), sep + 1)
    ELSE IF At(data, sep, ",")
        THEN ParseElements(data, SkipSpace(data, sep + 1), Append(vals, val.v))
    ELSE Failed))

\* One JSON value from its first byte.
ParseValue(data, i) ==
    IF i > Len(data) THEN Failed
    ELSE IF At(data, i, "{")
        THEN Bind(SkipSpace(data, i + 1), LAMBDA first :
             IF At(data, first, "}") THEN Parsed(JObj(<< >>, << >>), first + 1)
             ELSE ParseMembers(data, first, << >>, << >>))
    ELSE IF At(data, i, "[")
        THEN Bind(SkipSpace(data, i + 1), LAMBDA first :
             IF At(data, first, "]") THEN Parsed(JArr(<< >>), first + 1)
             ELSE ParseElements(data, first, << >>))
    ELSE IF At(data, i, "\"") THEN ParseString(data, i + 1, << >>)
    ELSE IF At(data, i, "-") \/ IsDigit(data[i]) THEN ParseNumber(data, i)
    ELSE IF At(data, i, "t") THEN ParseLiteral(data, i, Str(<< "t", "r", "u", "e" >>), JBool(TRUE))
    ELSE IF At(data, i, "f")
        THEN ParseLiteral(data, i, Str(<< "f", "a", "l", "s", "e" >>), JBool(FALSE))
    ELSE IF At(data, i, "n") THEN ParseLiteral(data, i, Str(<< "n", "u", "l", "l" >>), JNull)
    ELSE Failed

\* rawClaims (map[string]interface{}): nil, or a map from claim names to
\* values.  Reading a nil map finds no key.
NilClaims == [isNil |-> TRUE, m |-> << >>]
MakeClaims(fn) == [isNil |-> FALSE, m |-> fn]

\* The map an object decodes to: of two members with the same name the later
\* one stays.
ObjectMap(obj) ==
    [k \in {obj.keys[n] : n \in 1..Len(obj.keys)} |->
        obj.kids[CHOOSE n \in 1..Len(obj.keys) :
                    /\ obj.keys[n] = k
                    /\ \A n2 \in 1..Len(obj.keys) : obj.keys[n2] = k => n2 <= n]]

\* json.Unmarshal(data, &claims) with claims a nil rawClaims: data must be
\* exactly one JSON value between optional white space (else a SyntaxError);
\* an object fills the map, null leaves claims nil without an error, and a
\* string, number, boolean or array is an UnmarshalTypeError.
Unmarshal(data) ==
    Bind(ParseValue(data, SkipSpace(data, 1)), LAMBDA r :
    IF ~r.ok \/ SkipSpace(data, r.i) # Len(data) + 1
        THEN [ok |-> FALSE, claims |-> NilClaims]
    ELSE IF r.v.t = "object" THEN [ok |-> TRUE, claims |-> MakeClaims(ObjectMap(r.v))]
    ELSE IF r.v.t = "null" THEN [ok |-> TRUE, claims |-> NilClaims]
    ELSE [ok |-> FALSE, claims |-> NilClaims])

\* json.Marshal's string encoding: quoted, with '"' and '\' escaped.  (The
\* strings marshalled here hold no control bytes and none of < > &.)
RECURSIVE Quote(_)
Quote(str) ==
    IF Len(str) = 0 THEN << >>
    ELSE (IF Head(str) = Code["\""] \/ Head(str) = Code["\\"]
          THEN << Code["\\"], Head(str) >>
          ELSE << Head(str) >>) \o Quote(Tail(str))

\* json.Marshal: the compact encoding of a value.
RECURSIVE Marshal(_)
RECURSIVE MarshalList(_, _, _)
MarshalList(names, vals, n) ==
    IF n > Len(vals) THEN << >>
    ELSE (IF n > 1 THEN << Code[","] >> ELSE << >>)
         \o (IF Len(names) > 0
             THEN << Code["\""] >> \o Quote(names[n]) \o << Code["\""], Code[":"] >>
             ELSE << >>)
         \o Marshal(vals[n]) \o MarshalList(names, vals, n + 1)

Marshal(j) ==
    IF j.t = "string" THEN << Code["\""] >> \o Quote(j.s) \o << Code["\""] >>
    ELSE IF j.t = "number" THEN j.s
    ELSE IF j.t = "bool"
        THEN IF j.b THEN Str(<< "t", "r", "u", "e" >>) ELSE Str(<< "f", "a", "l", "s", "e" >>)
    ELSE IF j.t = "null" THEN Str(<< "n", "u", "l", "l" >>)
    ELSE IF j.t = "array"
        THEN << Code["["] >> \o MarshalList(<< >>, j.kids, 1) \o << Code["]"] >>
    ELSE << Code["{"] >> \o MarshalList(j.keys, j.kids, 1) \o << Code["}"] >>

\* ------------------------------------------------------ identity/token.go

\* Token field names.
subjectClaim == Str(<< "s", "u", "b" >>)
tenantClaim  == Str(<< "m", "e", "n", "d", "e", "r", ".", "t", "e", "n", "a", "n", "t" >>)
deviceClaim  == Str(<< "m", "e", "n", "d", "e", "r", ".", "d", "e", "v", "i", "c", "e" >>)
userClaim    == Str(<< "m", "e", "n", "d", "e", "r", ".", "u", "s", "e", "r" >>)
planClaim    == Str(<< "m", "e", "n", "d", "e", "r", ".", "p", "l", "a", "n" >>)

\* type Identity; Identity{} is the zero value.
Identity(sub, tenant, isUser, isDevice, plan) ==
    [Subject |-> sub, Tenant |-> tenant, IsUser |-> isUser, IsDevice |-> isDevice,
     Plan |-> plan]

ZeroIdentity == Identity(<< >>, << >>, FALSE, FALSE, << >>)

\* An error value: nil, or the message's fixed text with the value formatted
\* into it.
NoError == [msg |-> "", arg |-> << >>]
Error(text, val) == [msg |-> text, arg |-> val]

ErrFormat          == Error("incorrect token format", << >>)
ErrDecode(b64)     == Error("failed to decode raw claims", b64)
ErrParse           == Error("failed to decode claims", << >>)
ErrMissingSubject  == Error("subject claim not found", << >>)
ErrStringType(claim) == Error("invalid format", claim)
ErrMissingClaim(name) == Error("field not found", name)
ErrBoolType(name)  == Error("field has incorrect value", name)
ErrMalformedHeader == Error("malformed authorization data", << >>)
ErrScheme(method)  == Error("unknown authorization method", method)

\* Variant: a token of more than three parts is let through.
tokenFormatAtLeast(parts) == Len(parts) >= 3

\* decodeClaims, line 46: the token must split into exactly three parts.
tokenFormatOK(parts) == Len(parts) = 3

\* Variant: the header part is taken for the claims.
claimsPartFirst(parts) == parts[1]

\* decodeClaims, line 50: the claims are the middle part.
claimsPart(parts) == parts[2]

\* Variant: no padding is added.
addPaddingNone(b64claims) == b64claims

\* decodeClaims, lines 52-54: add padding as needed.
addPadding(b64claims) ==
    LET pad == Len(b64claims) % 4
    IN  IF pad # 0 THEN b64claims \o Repeat(padChar, 4 - pad) ELSE b64claims

decodeClaims(tok) ==
    Bind(Split(tok, Code["."]), LAMBDA parts :
    IF ~tokenFormatOK(parts) THEN [claims |-> NilClaims, err |-> ErrFormat]
    ELSE Bind(addPadding(claimsPart(parts)), LAMBDA b64claims :
    Bind(DecodeString(b64claims), LAMBDA rawclaims :
    IF ~rawclaims.ok THEN [claims |-> NilClaims, err |-> ErrDecode(b64claims)]
    ELSE Bind(Unmarshal(rawclaims.bytes), LAMBDA decoded :
    IF ~decoded.ok THEN [claims |-> NilClaims, err |-> ErrParse]
    ELSE [claims |-> decoded.claims, err |-> NoError]))))

\* Variant: a value of another type gives the default instead of an error.
getStringClaimLenient(claims, claim) ==
    IF claim \notin DOMAIN claims.m \/ claims.m[claim].t # "string"
    THEN [val |-> << >>, err |-> NoError]
    ELSE [val |-> claims.m[claim].s, err |-> NoError]

\* getStringClaim: "" when the claim is absent, its value when it is a
\* string, an error when it is anything else.
getStringClaim(claims, claim) ==
    IF claim \notin DOMAIN claims.m THEN [val |-> << >>, err |-> NoError]
    ELSE IF claims.m[claim].t # "string" THEN [val |-> << >>, err |-> ErrStringType(claim)]
    ELSE [val |-> claims.m[claim].s, err |-> NoError]

\* getBoolClaim: an error when the claim is absent or not a boolean.
getBoolClaim(claims, name) ==
    IF name \notin DOMAIN claims.m THEN [val |-> FALSE, err |-> ErrMissingClaim(name)]
    ELSE IF claims.m[name].t # "bool" THEN [val |-> FALSE, err |-> ErrBoolType(name)]
    ELSE [val |-> claims.m[name].b, err |-> NoError]

\* Variant: the subject is not checked.
subjectNeverMissing(sub) == FALSE

\* ExtractIdentity, line 84: an empty subject counts as a missing one.
subjectMissing(sub) == sub = << >>

\* Variant: the test of the getter's error is inverted.
flagOfInverted(got) == IF got.err # NoError THEN got.val ELSE FALSE

\* ExtractIdentity, lines 99-105: a flag is set only when its getter
\* succeeded; it keeps the zero value otherwise.
flagOf(got) == IF got.err = NoError THEN got.val ELSE FALSE

\* Variant: the error is returned with what was extracted so far.
failurePartial(extracted, e) == [identity |-> extracted, err |-> e]

\* return Identity{}, err: what was extracted before the failing step is
\* dropped.
failure(extracted, e) == [identity |-> ZeroIdentity, err |-> e]

ExtractIdentity(tok) ==
    Bind(decodeClaims(tok), LAMBDA decoded :
    LET claims   == decoded.claims
        sub      == getStringClaim(claims, subjectClaim)
        tenant   == getStringClaim(claims, tenantClaim)
        plan     == getStringClaim(claims, planClaim)
        isUser   == flagOf(getBoolClaim(claims, userClaim))
        isDevice == flagOf(getBoolClaim(claims, deviceClaim))
    IN  IF decoded.err # NoError THEN failure(ZeroIdentity, decoded.err)
        ELSE IF sub.err # NoError THEN failure(ZeroIdentity, sub.err)
        ELSE IF subjectMissing(sub.val)
            THEN failure(Identity(sub.val, << >>, FALSE, FALSE, << >>), ErrMissingSubject)
        ELSE IF tenant.err # NoError
            THEN failure(Identity(sub.val, << >>, FALSE, FALSE, << >>), tenant.err)
        ELSE IF plan.err # NoError
            THEN failure(Identity(sub.val, tenant.val, FALSE, FALSE, << >>), plan.err)
        ELSE [identity |-> Identity(sub.val, tenant.val, isUser, isDevice, plan.val),
              err |-> NoError])

\* http.Header with at most one value per name; Get gives "" for a name that
\* is not set.
HeaderGet(h, name) == IF name \in DOMAIN h THEN h[name] ELSE << >>

\* Variant: strings.Fields, which drops the empty pieces.
authFields(value) == SelectSeq(Split(value, Code[" "]), LAMBDA piece : piece # << >>)

\* ExtractIdentityFromHeaders, line 113: the value split on the space.
authParts(value) == Split(value, Code[" "])

\* Variant: the method is compared without regard to case.
isBearerFold(method) ==
    method \in {Str(<< "B", "e", "a", "r", "e", "r" >>), Str(<< "b", "e", "a", "r", "e", "r" >>)}

\* ExtractIdentityFromHeaders, line 119: the method must be Bearer.
isBearer(method) == method = Str(<< "B", "e", "a", "r", "e", "r" >>)

ExtractIdentityFromHeaders(h) ==
    Bind(authParts(HeaderGet(h, "Authorization")), LAMBDA auth :
    IF Len(auth) # 2 THEN failure(ZeroIdentity, ErrMalformedHeader)
    ELSE IF ~isBearer(auth[1]) THEN failure(ZeroIdentity, ErrScheme(auth[1]))
    ELSE ExtractIdentity(auth[2]))

\* ------------------------------------------------------------- the inputs

\* The longest string value of a subject, tenant or plan that is drawn.
MaxStrLen == 1

\* The most dot-separated segments of a token that is drawn.
MaxSegs == 4

\* A claim that the payload does not hold.
Absent == [t |-> "absent", s |-> << >>, b |-> FALSE, keys |-> << >>, kids |-> << >>]

Lit(chars) == JStr(Str(chars))
Num(chars) == JNum(Str(chars))

\* The claim values drawn: strings over a letter and a character that JSON
\* escapes, and values of every other JSON type.
StrBytes == {Code["a"], Code["\""]}
Strs == UNION {[1..n -> StrBytes] : n \in 0..MaxStrLen}
Garbage == JObj(<< Str(<< "g", "a", "r", "b", "a", "g", "e" >>) >>, << Num(<< "2" >>) >>)

SubjectVals == {Absent, Lit(<< >>), Lit(<< "1", "2", "3" >>), Num(<< "1", "2", "3" >>),
                JBool(TRUE), JNull, Garbage, JArr(<< >>)}
TenantVals  == {Absent, Lit(<< >>), Lit(<< "t" >>), Num(<< "1" >>), JNull}
PlanVals    == {Absent, Lit(<< "p" >>), JBool(FALSE), JArr(<< Lit(<< "p" >>) >>)}
UserVals    == {Absent, JBool(TRUE), JBool(FALSE), Garbage, JNull}
DeviceVals  == {Absent, JBool(TRUE), JBool(FALSE), Lit(<< "t", "r", "u", "e" >>), Num(<< "1" >>)}

Members(sub, tenant, plan, device, user) ==
    [sub |-> sub, tenant |-> tenant, plan |-> plan, device |-> device, user |-> user]

NoMembers == Members(Absent, Absent, Absent, Absent, Absent)

\* The payload object of a set of claims, without the absent ones.
ClaimsObject(mem) ==
    LET names == << subjectClaim, tenantClaim, planClaim, deviceClaim, userClaim >>
        vals  == << mem.sub, mem.tenant, mem.plan, mem.device, mem.user >>
        here  == SelectSeq(<< 1, 2, 3, 4, 5 >>, LAMBDA n : vals[n] # Absent)
    IN  JObj([n \in 1..Len(here) |-> names[here[n]]], [n \in 1..Len(here) |-> vals[here[n]]])

\* Where a payload comes from: a set of claims ("claims"), another JSON
\* document ("json"), bytes that are no JSON document ("text"), each base64
\* encoded with the padding kept or stripped; or a segment taken as it is
\* ("raw"); "none" for a token that has no payload segment.
Source(kind, mem, doc, bytes, padded) ==
    [kind |-> kind, members |-> mem, doc |-> doc, bytes |-> bytes, padded |-> padded]

NoSource == Source("none", NoMembers, JNull, << >>, TRUE)

RoundTripSources ==
    {Source("claims", Members(JStr(s), JStr(t), JStr(p), JBool(d), JBool(u)), JNull, << >>, pad) :
        s \in Strs \ {<< >>}, t \in Strs, p \in Strs, d \in BOOLEAN, u \in BOOLEAN,
        pad \in BOOLEAN}

ClaimsSources ==
    {Source("claims", Members(s, t, p, d, u), JNull, << >>, FALSE) :
        s \in SubjectVals, t \in TenantVals, p \in PlanVals, d \in DeviceVals, u \in UserVals}

\* Documents that are no set of the five claims: an object with another
\* claim, the empty object, an object that names the subject twice, and the
\* values that are no object.
OtherDocs ==
    {JObj(<< Str(<< "i", "s", "s" >>) >>, << Lit(<< "M", "e", "n", "d", "e", "r" >>) >>),
     JObj(<< >>, << >>),
     JObj(<< subjectClaim, subjectClaim >>, << Lit(<< >>), Lit(<< "a" >>) >>),
     Lit(<< "s", "u", "b" >>), Num(<< "1" >>), JBool(TRUE), JBool(FALSE), JNull,
     JArr(<< >>), JArr(<< JObj(<< subjectClaim >>, << Lit(<< "a" >>) >>) >>)}

\* Bytes that are no JSON document.
BadTexts ==
    {Str(<< "\"", "s", "u", "b", "\"", ":", " ", "1", "}" >>),
     Str(<< "{" >>),
     Str(<< "{", "\"", "s", "u", "b", "\"", ":", "\"", "a", "\"" >>),
     Str(<< "{", "\"", "s", "u", "b", "\"", ":", "\"", "a", "\"", "}", "x" >>),
     Str(<< "{", "\"", "s", "u", "b", "\"", ":", "\"", "a", "\"", ",", "}" >>),
     Str(<< "{", "s", "u", "b", ":", "\"", "a", "\"", "}" >>),
     Str(<< "{", "\"", "s", "u", "b", "\"", ":", "0", "1", "}" >>),
     Str(<< "n", "u", "l" >>),
     Str(<< " " >>),
     << >>}

\* Segments that are not the base64 encoding of anything, or not as they are.
RawSegments ==
    {Str(<< "b", "a", "r" >>),
     Str(<< "A" >>),
     Str(<< "e", "y", "J", "!" >>),
     Str(<< "e", "3", "0", "=", "e", "3", "0", "=" >>),
     Str(<< "e", "3", "0" >>) \o << LF >>,
     Str(<< "e", "3", "0", "=" >>) \o << CR, LF, CR, LF >>,
     Str(<< "0", "0" >>) \o EncodeToString(Marshal(ClaimsObject(
         Members(Lit(<< "f", "o", "o", "b", "a", "r" >>), Absent, Absent, Absent, Absent))))}

OtherSources ==
    {Source("json", NoMembers, doc, << >>, pad) : doc \in OtherDocs, pad \in BOOLEAN}
    \cup {Source("text", NoMembers, JNull, txt, pad) : txt \in BadTexts, pad \in BOOLEAN}
    \cup {Source("raw", NoMembers, JNull, seg, TRUE) : seg \in RawSegments}

\* The bytes a source encodes, and the payload segment it gives.
SourceBytes(source) ==
    IF source.kind = "claims"
        THEN Bind(ClaimsObject(source.members), LAMBDA doc : Marshal(doc))
    ELSE IF source.kind = "json" THEN Marshal(source.doc)
    ELSE source.bytes

Segment(source) ==
    IF source.kind = "raw" THEN source.bytes
    ELSE Bind(SourceBytes(source), LAMBDA bytes :
         IF source.padded THEN EncodeToString(bytes)
         ELSE StripPadding(EncodeToString(bytes)))

\* Header and signature segments: empty, a letter, and a segment that would
\* itself decode to claims.
EdgeSegments ==
    {<< >>, Str(<< "x" >>),
     StripPadding(EncodeToString(Marshal(ClaimsObject(
         Members(Lit(<< "h" >>), Absent, Absent, JBool(TRUE), Absent)))))}

Token(parts) == Join(parts, Code["."])

\* The Authorization values drawn for a token.
AuthValues(tok) ==
    {Str(<< "B", "e", "a", "r", "e", "r", " " >>) \o tok,
     Str(<< "B", "a", "s", "i", "c", " " >>) \o tok,
     Str(<< "b", "e", "a", "r", "e", "r", " " >>) \o tok,
     Str(<< "B", "e", "a", "r", "e", "r" >>),
     Str(<< "B", "e", "a", "r", "e", "r", " ", " " >>) \o tok,
     Str(<< "B", "e", "a", "r", "e", "r", " " >>) \o tok \o Str(<< " " >>),
     Str(<< " " >>) \o tok,
     tok,
     << >>}

NoHeaders == << >>
HeadersFor(tok) == {NoHeaders} \cup {[name \in {"Authorization"} |-> v] : v \in AuthValues(tok)}

\* ---------------------------------------------------------------- states

VARIABLES
    token,      \* the token handed to the call
    src,        \* where its payload segment comes from
    payload,    \* the payload segment as built
    call,       \* the function called, "none" before the call
    headers,    \* the headers handed to ExtractIdentityFromHeaders
    claims,     \* decodeClaims' claims
    identity,   \* ExtractIdentity's and ExtractIdentityFromHeaders' Identity
    err         \* the error returned

vars == << token, src, payload, call, headers, claims, identity, err >>

Fresh ==
    /\ call = "none"
    /\ headers = NoHeaders
    /\ claims = NilClaims
    /\ identity = ZeroIdentity
    /\ err = NoError

\* A token of three segments around a payload.
InitPayload ==
    \/ \E source \in RoundTripSources \cup ClaimsSources :
          \E seg \in {Segment(source)} :
              /\ src = source
              /\ payload = seg
              /\ token = Token(<< Str(<< "x" >>), seg, Str(<< "y" >>) >>)
    \/ \E source \in OtherSources, h \in EdgeSegments, sig \in EdgeSegments :
          \E seg \in {Segment(source)} :
              /\ src = source
              /\ payload = seg
              /\ token = Token(<< h, seg, sig >>)

\* A token of any other number of segments.
InitShape ==
    \E n \in (1..MaxSegs) \ {3} :
        \E parts \in [1..n -> EdgeSegments \cup {Str(<< "f", "o", "o" >>)}] :
            /\ src = NoSource
            /\ payload = << >>
            /\ token = Token(parts)

Init == (InitPayload \/ InitShape) /\ Fresh

CallDecodeClaims ==
    /\ call = "none"
    /\ call' = "decodeClaims"
    /\ \E r \in {decodeClaims(token)} :
          /\ claims' = r.claims
          /\ err' = r.err
    /\ UNCHANGED << token, src, payload, headers, identity >>

CallExtractIdentity ==
    /\ call = "none"
    /\ call' = "ExtractIdentity"
    /\ \E r \in {ExtractIdentity(token)} :
          /\ identity' = r.identity
          /\ err' = r.err
    /\ UNCHANGED << token, src, payload, headers, claims >>

CallExtractIdentityFromHeaders ==
    /\ call = "none"
    /\ call' = "ExtractIdentityFromHeaders"
    /\ \E h \in HeadersFor(token) :
          \E r \in {ExtractIdentityFromHeaders(h)} :
              /\ headers' = h
              /\ identity' = r.identity
              /\ err' = r.err
    /\ UNCHANGED << token, src, payload, claims >>

Next ==
    \/ CallDecodeClaims
    \/ CallExtractIdentity
    \/ CallExtractIdentityFromHeaders

Spec == Init /\ [][Next]_vars

\* ---------------------------------------------------------- the properties

Bearer == Str(<< "B", "e", "a", "r", "e", "r" >>)
Space == Code[" "]
Dot == Code["."]

\* How often a byte occurs in a string.
Count(str, byte) == Cardinality({i \in 1..Len(str) : str[i] = byte})

\* The outcome of the call on the Identity side.
Outcome == [identity |-> identity, err |-> err]

\* The document the payload encodes, for a source that encodes one.
EncodesDoc == src.kind \in {"claims", "json"}
SrcDoc == IF src.kind = "claims" THEN ClaimsObject(src.members) ELSE src.doc

\* A member of the document by name: the last one of that name.
Has(doc, name) == \E n \in 1..Len(doc.keys) : doc.keys[n] = name
ValueOf(doc, name) ==
    doc.kids[CHOOSE n \in 1..Len(doc.keys) :
                /\ doc.keys[n] = name
                /\ \A n2 \in (n + 1)..Len(doc.keys) : doc.keys[n2] # name]
Member(doc, name) == IF Has(doc, name) THEN ValueOf(doc, name) ELSE Absent

IsString(val) == val.t = "string"
StringOrAbsent(val) == val.t \in {"string", "absent"}
PresentNotString(val) == val.t \notin {"string", "absent"}
NonEmptyString(val) == val.t = "string" /\ val.s # << >>

\* The payload is an object that holds all five claims with values of the
\* right types and a subject that is not empty, in a token "x." B ".y".
RoundTripCase ==
    /\ call = "ExtractIdentity"
    /\ src.kind = "claims"
    /\ NonEmptyString(src.members.sub)
    /\ IsString(src.members.tenant)
    /\ IsString(src.members.plan)
    /\ src.members.device.t = "bool"
    /\ src.members.user.t = "bool"
    /\ token = Str(<< "x", "." >>) \o payload \o Str(<< ".", "y" >>)
    /\ payload = IF src.padded THEN EncodeToString(Marshal(SrcDoc))
                 ELSE StripPadding(EncodeToString(Marshal(SrcDoc)))

\* C1: a token "x." B ".y" whose B is the URL-safe base64 encoding, padded
\* or with the padding stripped, of {"sub": S, "mender.tenant": T,
\* "mender.plan": P, "mender.device": D, "mender.user": U} with S not empty
\* extracts without an error to exactly Identity{S, T, P, D, U}.
C1_RoundTrip ==
    RoundTripCase =>
        /\ err = NoError
        /\ identity = Identity(src.members.sub.s, src.members.tenant.s, src.members.user.b,
                               src.members.device.b, src.members.plan.s)

\* The payload's padding was stripped and had to be restored, the subject
\* holds a character that JSON escapes, and the flags differ.
C1_Witness ==
    /\ RoundTripCase
    /\ ~src.padded
    /\ Len(payload) % 4 # 0
    /\ identity.Subject = << Code["\""] >>
    /\ identity.IsDevice
    /\ ~identity.IsUser

\* The payload is valid base64 of bytes that are no JSON object.
NotAnObjectCase ==
    /\ call \in {"decodeClaims", "ExtractIdentity"}
    /\ \/ src.kind = "text"
       \/ src.kind = "json" /\ src.doc.t # "object"

\* C2: when the middle segment is valid base64 but its bytes are not a JSON
\* object (invalid JSON, or a string, number, boolean, array or null),
\* decodeClaims and ExtractIdentity fail with the "failed to decode claims"
\* error.
C2_NotAnObjectIsParseError == NotAnObjectCase => err = ErrParse

\* C3: a token that does not hold exactly two '.' fails with "incorrect
\* token format" in decodeClaims and ExtractIdentity, whatever its segments
\* hold.
C3_FormatError ==
    (call \in {"decodeClaims", "ExtractIdentity"} /\ Count(token, Dot) # 2) =>
        /\ err = ErrFormat
        /\ claims = NilClaims
        /\ identity = ZeroIdentity

\* A bare payload that would decode to claims, without header and signature.
C3_Witness ==
    /\ call = "ExtractIdentity"
    /\ Count(token, Dot) = 0
    /\ Len(token) > 3
    /\ DecodeString(addPadding(token)).ok
    /\ err = ErrFormat

\* The payload is an object whose subject is absent or the empty string.
NoSubjectCase ==
    /\ call = "ExtractIdentity"
    /\ EncodesDoc
    /\ SrcDoc.t = "object"
    /\ Member(SrcDoc, subjectClaim) \in {Absent, JStr(<< >>)}

\* C4: a payload object in which "sub" is absent or the empty string makes
\* ExtractIdentity fail with "subject claim not found", whatever its other
\* claims are.
C4_MissingSubject == NoSubjectCase => (err = ErrMissingSubject /\ identity = ZeroIdentity)

\* The subject is the empty string and the tenant has the wrong type.
C4_Witness ==
    /\ NoSubjectCase
    /\ src.kind = "claims"
    /\ src.members.sub = JStr(<< >>)
    /\ PresentNotString(src.members.tenant)
    /\ err = ErrMissingSubject

\* The payload is an object with a subject that is not empty and a tenant
\* and a plan that are strings or absent.
StringsFineCase ==
    /\ call = "ExtractIdentity"
    /\ src.kind = "claims"
    /\ NonEmptyString(src.members.sub)
    /\ StringOrAbsent(src.members.tenant)
    /\ StringOrAbsent(src.members.plan)

\* C5: with a good subject, tenant and plan, ExtractIdentity succeeds
\* whatever mender.user and mender.device are: a flag is the claim's value
\* when the claim is a boolean and false when it is absent or of another
\* type, and Subject, Tenant and Plan are as the payload gives them.
C5_BooleanClaims ==
    StringsFineCase =>
        /\ err = NoError
        /\ identity.IsUser = (src.members.user.t = "bool" /\ src.members.user.b)
        /\ identity.IsDevice = (src.members.device.t = "bool" /\ src.members.device.b)
        /\ identity.Subject = src.members.sub.s
        /\ identity.Tenant = src.members.tenant.s
        /\ identity.Plan = src.members.plan.s

\* mender.user is an object, mender.device a string.
C5_Witness ==
    /\ StringsFineCase
    /\ src.members.user = Garbage
    /\ src.members.device.t = "string"
    /\ src.members.tenant = Absent
    /\ err = NoError
    /\ identity = Identity(src.members.sub.s, << >>, FALSE, FALSE, src.members.plan.s)

\* The first of sub, mender.tenant and mender.plan that is present with a
\* value that is no string, the earlier ones being fine; << >> when there
\* is none.
FirstMistyped ==
    IF PresentNotString(src.members.sub) THEN subjectClaim
    ELSE IF ~NonEmptyString(src.members.sub) THEN << >>
    ELSE IF PresentNotString(src.members.tenant) THEN tenantClaim
    ELSE IF PresentNotString(src.members.plan) THEN planClaim
    ELSE << >>

MistypedCase ==
    /\ call = "ExtractIdentity"
    /\ src.kind = "claims"
    /\ FirstMistyped # << >>

\* C6: a string claim present with a value of another type is fatal:
\* ExtractIdentity fails with the "invalid format" error naming the first
\* of sub, mender.tenant, mender.plan that has the wrong type, and gives no
\* default.
C6_TypeMismatch ==
    MistypedCase => (err = ErrStringType(FirstMistyped) /\ identity = ZeroIdentity)

\* The subject is fine, the tenant is null and the plan is mistyped too.
C6_Witness ==
    /\ MistypedCase
    /\ src.members.tenant = JNull
    /\ PresentNotString(src.members.plan)
    /\ err = ErrStringType(tenantClaim)

\* The Authorization header is "Bearer " and the token, which holds no space.
BearerCase ==
    /\ call = "ExtractIdentityFromHeaders"
    /\ "Authorization" \in DOMAIN headers
    /\ headers["Authorization"] = Bearer \o << Space >> \o token
    /\ Count(token, Space) = 0

\* C7: ExtractIdentityFromHeaders on "Bearer " + t gives what
\* ExtractIdentity(t) gives: the same Identity and the same error.
C7_HeaderEquivalence == BearerCase => Outcome = ExtractIdentity(token)

\* A token that extracts to an Identity.
C7_Witness ==
    /\ BearerCase
    /\ err = NoError
    /\ identity.Subject # << >>
    /\ identity.IsUser

\* The Authorization value, "" when the header is not set.
AuthValue == IF "Authorization" \in DOMAIN headers THEN headers["Authorization"] ELSE << >>

\* What stands before the first space of the value.
Method == SubSeq(AuthValue, 1, (CHOOSE i \in 1..Len(AuthValue) : AuthValue[i] = Space) - 1)

\* C8: an Authorization value that does not hold exactly one space fails
\* with "malformed authorization data", whatever its method; a value with
\* one space whose first part is not exactly "Bearer" fails with "unknown
\* authorization method"; the token is not decoded in either case.
C8_HeaderRejection ==
    call = "ExtractIdentityFromHeaders" =>
        /\ Count(AuthValue, Space) # 1 =>
              (err = ErrMalformedHeader /\ identity = ZeroIdentity)
        /\ (Count(AuthValue, Space) = 1 /\ Method # Bearer) =>
              (err = ErrScheme(Method) /\ identity = ZeroIdentity)

\* "bearer" in lower case before a token that would extract.
C8_Witness ==
    /\ call = "ExtractIdentityFromHeaders"
    /\ Count(AuthValue, Space) = 1
    /\ Method = Str(<< "b", "e", "a", "r", "e", "r" >>)
    /\ ExtractIdentity(token).err = NoError
    /\ err = ErrScheme(Method)

\* C9: a call that returns an error returns nothing else: nil claims and
\* the zero Identity, also when claims were extracted before the failing
\* step; and an Identity returned without an error has a subject.
C9_NoPartialResults ==
    /\ (call # "none" /\ err # NoError) => (claims = NilClaims /\ identity = ZeroIdentity)
    /\ (call \in {"ExtractIdentity", "ExtractIdentityFromHeaders"} /\ err = NoError) =>
          identity.Subject # << >>

\* The subject and the tenant were extracted before the plan failed.
C9_Witness ==
    /\ call = "ExtractIdentityFromHeaders"
    /\ src.kind = "claims"
    /\ NonEmptyString(src.members.sub)
    /\ NonEmptyString(src.members.tenant)
    /\ err = ErrStringType(planClaim)
    /\ identity = ZeroIdentity

\* The token is a header, the payload and a signature: the payload stands
\* between the token's only two dots.
ThreeSegmentCase ==
    /\ call = "ExtractIdentity"
    /\ src.kind # "none"
    /\ Count(token, Dot) = 2
    /\ \E n \in 0..Len(token) :
          SubSeq(token, n + 1, n + Len(payload) + 2) = << Dot >> \o payload \o << Dot >>

\* C10: the outcome depends on the middle segment alone: with any other
\* header and signature segments around the same payload ExtractIdentity
\* gives the same Identity and the same error.
C10_PayloadOnly ==
    ThreeSegmentCase =>
        \A h \in EdgeSegments, sig \in EdgeSegments :
            ExtractIdentity(Token(<< h, payload, sig >>)) = Outcome

\* The header would itself decode to claims, the payload does not.
C10_Witness ==
    /\ ThreeSegmentCase
    /\ src.kind = "text"
    /\ ExtractIdentity(Token(<< Str(<< "x" >>), Split(token, Dot)[1], Str(<< "y" >>) >>)).err
          = NoError
    /\ err = ErrParse

====
